---- MODULE Spec2Model ----
(***************************************************************************)
(* Model of the OpenNero NERO client script (mods/NERO/client.py) and of   *)
(* the TeamAdapt constants module (branches/TeamAdapt/constants.py).       *)
(*                                                                         *)
(* Numbers are exact: coordinates are integers, an angle is kept as a      *)
(* direction [u, v] with (cos, sin) proportional to (u, v), and a scale    *)
(* factor is kept as [n, rsq, inv], standing for 1 + n/sqrt(rsq), or its   *)
(* reciprocal when inv is set.  Floating-point rounding is not modelled.   *)
(***************************************************************************)
EXTENDS Integers, Sequences, FiniteSets, TLC

\* ---------------------------------------------------------------- bounds
MaxPoints == 2
MaxObjects == 1
MaxDrags == 1
MaxCalls == 12

\* world locations the mouse is sampled at: the first MaxPoints of PointList,
\* at heights on both sides of the |z| > 1 test of show_context_menu
PointList == <<[x |-> 0, y |-> 0], [x |-> 1, y |-> 1], [x |-> 1, y |-> 0],
               [x |-> -1, y |-> -2], [x |-> 2, y |-> 1], [x |-> -2, y |-> 2]>>
Points == {PointList[i] : i \in 1..MaxPoints}
ZVals == {-2, 1, 2}

\* ------------------------------------------ branches/TeamAdapt/constants.py
ROWS == 8
COLS == 8
MAX_STEPS_HALF == ROWS * COLS
MAX_STEPS == ROWS * COLS * 2
HISTORY_LENGTH == 5
OBSTACLE_MASK == 1
AGENT_MASK == 2
STEPS_IN_ROUND == 3
STARTING_BARBS == 1
BARBS_PER_ROUND == 1
STARTING_CITIES == 3
STARTING_LEGIONS == 3

ConstantsModule ==
    [ROWS |-> ROWS, COLS |-> COLS, MAX_STEPS |-> MAX_STEPS,
     HISTORY_LENGTH |-> HISTORY_LENGTH,
     OBSTACLE_MASK |-> OBSTACLE_MASK, AGENT_MASK |-> AGENT_MASK,
     STEPS_IN_ROUND |-> STEPS_IN_ROUND, STARTING_BARBS |-> STARTING_BARBS,
     BARBS_PER_ROUND |-> BARBS_PER_ROUND, STARTING_CITIES |-> STARTING_CITIES,
     STARTING_LEGIONS |-> STARTING_LEGIONS]

NoConstants == [n \in {} |-> 0]

\* -------------------------------------------------- mods/NERO/client.py
\* HEIGHT and OFFSET are star-imported by client.py; only their sum is used.
HEIGHT == 20
OFFSET == -10

Abs(i) == IF i < 0 THEN -i ELSE i

RECURSIVE Gcd(_, _)
Gcd(a, b) == IF b = 0 THEN a ELSE Gcd(b, a % b)

Vector3f(x, y, z) == [x |-> x, y |-> y, z |-> z]

\* angles
Deg0 == [u |-> 1, v |-> 0]
Deg90 == [u |-> 0, v |-> 1]

\* the value -math.degrees(math.atan2(dx, dy)) as a direction
NegAtan2Deg(dx, dy) ==
    IF dx = 0 /\ dy = 0 THEN Deg0
    ELSE LET g == Gcd(Abs(dx), Abs(dy))
         IN  [u |-> dy \div g, v |-> (0 - dx) \div g]

\* scale factors
Plain(k) == [n |-> k - 1, rsq |-> 1, inv |-> FALSE]

ScalePositive(s) == (s.n >= 0) \/ (s.n * s.n < s.rsq)
BaseAbove1(s) == s.n > 0
BaseBelow1(s) == s.n < 0 /\ s.n * s.n < s.rsq
ScaleAbove1(s) == IF s.inv THEN BaseBelow1(s) ELSE BaseAbove1(s)
ScaleBelow1(s) == IF s.inv THEN BaseAbove1(s) \/ ~ScalePositive(s)
                  ELSE s.n < 0

\* lines 155-159 for one axis; num/sqrt(rsq) is the local coordinate
ScaleFactor(num, rsq) == [n |-> Abs(num), rsq |-> rsq, inv |-> num < 0]

\* lines 151-152: numerators of the local coordinates over sqrt(u^2 + v^2)
LocalXNum(ex, ey, th) == ex * th.u + ey * th.v
LocalYNum(ex, ey, th) == (0 - ex) * th.v + ey * th.u
RSq(th) == th.u * th.u + th.v * th.v

NoEntity == 0
TerrainId == 1
FirstObjectId == 2

ObjectMenu == <<"Rotate Object", "Scale Object", "Move Object", "Remove Object">>
GroundMenu == <<"Add wall", "Place Flag", "Place Basic Turret", "Set Spawn Location">>
NoMenu == [open |-> FALSE]

Items(m) == IF m.open THEN {m.items[i] : i \in 1..Len(m.items)} ELSE {}
Keys(f) == DOMAIN f
EmptyDict == [k \in {} |-> 0]
GuiNames == {"mode", "guiMan", "object_ids", "modify_object_id"}
Range(s) == {s[i] : i \in 1..Len(s)}

VARIABLES
    phase,             \* position of ClientMain: "boot", "hub" or "running"
    defined,           \* module globals that are bound
    ai_state,          \* "None", "Started", "Paused"
    ai_enabled,        \* the engine's AI flag
    n_calls,           \* toggle_ai_callback invocations
    n_toggle,          \* toggle_ai() invocations
    n_start,           \* start_rtneat() invocations
    object_ids,        \* list of ids appended by add_wall
    modify_object_id,  \* dict: mode -> object id
    menu,              \* the open context menu with what its closures captured
    scene,             \* engine objects: id -> position, rotation, scale
    next_id,           \* id the engine hands out next
    added,             \* ids returned by addObject in add_wall
    removed,           \* ids passed to removeObject in remove_wall
    n_drags,           \* mouse_action runs that reached the engine
    world,             \* lights, sky box, camera, input mapping
    constants,         \* namespace of the constants module once imported
    calls              \* engine and mod calls made by the last handler, in order

vars == <<phase, defined, ai_state, ai_enabled, n_calls, n_toggle, n_start,
          object_ids, modify_object_id, menu, scene, next_id, added, removed,
          n_drags, world, constants, calls>>

aiVars == <<ai_state, ai_enabled, n_calls, n_toggle, n_start>>
guiVars == <<object_ids, modify_object_id, menu, scene, next_id, added, removed, n_drags>>

NoWorld == [lights |-> {}, skybox |-> "", camera |-> [exists |-> FALSE],
            io_map |-> EmptyDict]

Init ==
    /\ phase = "boot"
    /\ defined = {"ai_state"}
    /\ ai_state = "None"
    /\ ai_enabled \in BOOLEAN
    /\ n_calls = 0
    /\ n_toggle = 0
    /\ n_start = 0
    /\ object_ids = <<>>
    /\ modify_object_id = EmptyDict
    /\ menu = NoMenu
    /\ scene = EmptyDict
    /\ next_id = FirstObjectId
    /\ added = {}
    /\ removed = {}
    /\ n_drags = 0
    /\ world = NoWorld
    /\ constants = NoConstants
    /\ calls = <<>>

\* import of branches/TeamAdapt/constants.py
LoadConstants ==
    /\ constants = NoConstants
    /\ constants' = ConstantsModule
    /\ UNCHANGED <<phase, defined, aiVars, guiVars, world, calls>>

Put(d, k, val) == [j \in DOMAIN d \cup {k} |-> IF j = k THEN val ELSE d[j]]
Drop(d, k) == [j \in DOMAIN d \ {k} |-> d[j]]

\* what setup_map leaves in the scene: an entity that is no wall
MapObject ==
    [position |-> Vector3f(0, 0, 0),
     rotation |-> Vector3f(Deg0, Deg0, Deg0),
     scale |-> Vector3f(Plain(1), Plain(1), Plain(1))]

RecenterCamera(cam) ==
    [cam EXCEPT !.position = Vector3f(0, 0, 100), !.target = Vector3f(100, 100, 0)]

SetupFailedCalls == <<"disable_ai", "setup_map", "switchToHub">>
SetupCalls ==
    <<"disable_ai", "setup_map", "addLightSource", "addSkyBox", "CreateGui",
      "addCamera", "setFarPlane", "setEdgeScroll", "setPosition", "setTarget",
      "createInputMapping", "BindKey", "setInputMapping">>

ClientMainSetup ==
    /\ phase' = "running"
    /\ scene' = Put(EmptyDict, TerrainId, MapObject)
    /\ calls' = SetupCalls
    /\ defined' = defined \cup GuiNames
    /\ object_ids' = <<>>
    /\ modify_object_id' = EmptyDict
    /\ world' = [lights |-> {[position |-> Vector3f(500, -500, 1000), radius |-> 1500]},
                 skybox |-> "data/sky/irrlicht2",
                 camera |-> RecenterCamera(
                               [exists |-> TRUE, rotateSpeed |-> 100,
                                moveSpeed |-> 15000, zoomSpeed |-> 200,
                                farPlane |-> 40000, edgeScroll |-> FALSE,
                                position |-> Vector3f(0, 0, 0),
                                target |-> Vector3f(0, 0, 0)]),
                 io_map |-> [k \in {"KEY_SPACE"} |-> "recenter_cam"]]

ClientMainFailNoReturn ==
    /\ phase' = "hub"
    /\ UNCHANGED scene
    /\ calls' = SetupFailedCalls \o SubSeq(SetupCalls, 3, Len(SetupCalls))
    /\ defined' = defined \cup GuiNames
    /\ object_ids' = <<>>
    /\ modify_object_id' = EmptyDict
    /\ world' = [NoWorld EXCEPT !.skybox = "data/sky/irrlicht2"]

ClientMainFail ==
    /\ phase' = "hub"
    /\ calls' = SetupFailedCalls
    /\ UNCHANGED <<defined, object_ids, modify_object_id, world, scene>>

ClientMain ==
    /\ phase = "boot"
    /\ ai_enabled' = FALSE
    /\ \E ok \in BOOLEAN : IF ok THEN ClientMainSetup ELSE ClientMainFail
    /\ UNCHANGED <<ai_state, n_calls, n_toggle, n_start, menu, next_id,
                   added, removed, n_drags, constants>>

\* lines 12-21
NextAiStateNoResume(st) ==
    IF st = "None" THEN "Started"
    ELSE IF st = "Started" THEN "Paused"
    ELSE st

NextAiState(st) ==
    IF st = "None" THEN "Started"
    ELSE IF st = "Started" THEN "Paused"
    ELSE IF st = "Paused" THEN "Started"
    ELSE st

StartsRtneatAlways(st) == TRUE
StartsRtneat(st) == st = "None"

ToggleAiCallback ==
    /\ phase = "running"
    /\ n_calls < MaxCalls
    /\ n_calls' = n_calls + 1
    /\ n_toggle' = n_toggle + 1
    /\ ai_enabled' = ~ai_enabled
    /\ n_start' = IF StartsRtneat(ai_state) THEN n_start + 1 ELSE n_start
    /\ calls' = IF StartsRtneat(ai_state) THEN <<"toggle_ai", "start_rtneat">>
                ELSE <<"toggle_ai">>
    /\ ai_state' = NextAiState(ai_state)
    /\ UNCHANGED <<phase, defined, guiVars, world, constants>>

\* lines 29-33, run by the key bound at line 206
PressSpace ==
    /\ phase = "running"
    /\ "KEY_SPACE" \in DOMAIN world.io_map
    /\ calls' = <<"setPosition", "setTarget">>
    /\ world' = [world EXCEPT !.camera = RecenterCamera(world.camera)]
    /\ UNCHANGED <<phase, defined, aiVars, guiVars, constants>>

\* what the engine can report for the mouse: a world location and an entity
Entities == {NoEntity} \cup DOMAIN scene
CursorStates ==
    {[location |-> Vector3f(p.x, p.y, z), entity |-> e] :
        p \in Points, z \in ZVals, e \in Entities}

QueryCalls == <<"setTransparency", "getSimContext", "getMousePosition",
                "getClickedPosition", "getClickedEntityId">>
MenuCalls == <<"create_context_menu", "create_button", "addItem", "create_button",
               "addItem", "create_button", "addItem", "create_button", "addItem">>

\* line 41
MenuBlockedNever(m) == FALSE
MenuBlocked(m) == Cardinality(Keys(m)) > 0

\* line 53
OffGroundNever(ids, c) == FALSE
OffGround(ids, c) == c.entity \notin Range(ids) /\ Abs(c.location.z) > 1

\* lines 85-117
MenuItems(ids, c) == IF c.entity \in Range(ids) THEN ObjectMenu ELSE GroundMenu

\* lines 37-117
ShowContextMenuAt(cursor) ==
    /\ phase = "running"
    /\ IF MenuBlocked(modify_object_id)
       THEN /\ calls' = <<>>
            /\ UNCHANGED menu
       ELSE /\ IF OffGround(object_ids, cursor)
               THEN /\ calls' = QueryCalls
                    /\ UNCHANGED menu
               ELSE /\ calls' = QueryCalls \o MenuCalls
                    /\ menu' = [open |-> TRUE,
                                items |-> MenuItems(object_ids, cursor),
                                location |-> cursor.location,
                                selected_object_id |-> cursor.entity]
    /\ UNCHANGED <<phase, defined, aiVars, object_ids, modify_object_id, scene,
                   next_id, added, removed, n_drags, world, constants>>

ShowContextMenu == \E cursor \in CursorStates : ShowContextMenuAt(cursor)

\* a click on an item of the open menu runs its closure and closes the menu
Choose(item) ==
    /\ phase = "running"
    /\ menu.open
    /\ item \in Items(menu)
    /\ menu' = NoMenu
    /\ UNCHANGED <<phase, defined, aiVars, n_drags, world, constants>>

WallPosition(loc) == Vector3f(loc.x, loc.y, HEIGHT + OFFSET)
WallObject(loc) ==
    [position |-> WallPosition(loc),
     rotation |-> Vector3f(Deg0, Deg0, Deg90),
     scale |-> Vector3f(Plain(1), Plain(30), Plain(HEIGHT))]


\* lines 59-60
add_wall ==
    /\ Choose("Add wall")
    /\ next_id < FirstObjectId + MaxObjects
    /\ calls' = <<"addObject">>
    /\ scene' = Put(scene, next_id, WallObject(menu.location))
    /\ next_id' = next_id + 1
    /\ object_ids' = Append(object_ids, next_id)
    /\ added' = added \cup {next_id}
    /\ UNCHANGED <<modify_object_id, removed>>

\* lines 62-69
rotate_object ==
    /\ Choose("Rotate Object")
    /\ calls' = <<>>
    /\ modify_object_id' = Put(modify_object_id, "rot", menu.selected_object_id)
    /\ UNCHANGED <<object_ids, scene, next_id, added, removed>>

scale_object ==
    /\ Choose("Scale Object")
    /\ calls' = <<>>
    /\ modify_object_id' = Put(modify_object_id, "scale", menu.selected_object_id)
    /\ UNCHANGED <<object_ids, scene, next_id, added, removed>>

move_object ==
    /\ Choose("Move Object")
    /\ calls' = <<>>
    /\ modify_object_id' = Put(modify_object_id, "move", menu.selected_object_id)
    /\ UNCHANGED <<object_ids, scene, next_id, added, removed>>

\* lines 71-80
place_flag ==
    /\ Choose("Place Flag")
    /\ calls' = <<"change_flag">>
    /\ UNCHANGED <<object_ids, modify_object_id, scene, next_id, added, removed>>

place_basic_turret ==
    /\ Choose("Place Basic Turret")
    /\ calls' = <<"place_basic_turret">>
    /\ UNCHANGED <<object_ids, modify_object_id, scene, next_id, added, removed>>

set_spawn ==
    /\ Choose("Set Spawn Location")
    /\ calls' = <<"set_spawn">>
    /\ UNCHANGED <<object_ids, modify_object_id, scene, next_id, added, removed>>

\* lines 82-83
remove_wall ==
    /\ Choose("Remove Object")
    /\ calls' = <<"removeObject">>
    /\ scene' = Drop(scene, menu.selected_object_id)
    /\ removed' = removed \cup {menu.selected_object_id}
    /\ UNCHANGED <<object_ids, modify_object_id, next_id, added>>

\* lines 119-121
ResetModes(m) == EmptyDict

reset_mouse_action ==
    /\ phase = "running"
    /\ calls' = <<>>
    /\ modify_object_id' = ResetModes(modify_object_id)
    /\ UNCHANGED <<phase, defined, aiVars, object_ids, menu, scene, next_id,
                   added, removed, n_drags, world, constants>>

\* line 138
MoveTarget(loc) == Vector3f(loc.x, loc.y, HEIGHT + OFFSET)

\* lines 141-143
AimRotation(position, loc) ==
    Vector3f(Deg0, Deg0, NegAtan2Deg(loc.x - position.x, loc.y - position.y))

\* lines 146-162
DragScaleFlat(position, rotation, prev_scale, loc) ==
    LET ex == loc.x - position.x
        ey == loc.y - position.y
        th == rotation.z
    IN  Vector3f(ScaleFactor(LocalXNum(ex, ey, th), RSq(th)),
                 ScaleFactor(LocalYNum(ex, ey, th), RSq(th)),
                 Plain(1))
DragScale(position, rotation, prev_scale, loc) ==
    LET ex == loc.x - position.x
        ey == loc.y - position.y
        th == rotation.z
    IN  Vector3f(ScaleFactor(LocalXNum(ex, ey, th), RSq(th)),
                 ScaleFactor(LocalYNum(ex, ey, th), RSq(th)),
                 prev_scale.z)

AfterMove(sc, m, loc) ==
    IF "move" \in Keys(m)
    THEN [sc EXCEPT ![m["move"]].position = MoveTarget(loc)]
    ELSE sc

AfterRot(sc, m, loc) ==
    IF "rot" \in Keys(m)
    THEN [sc EXCEPT ![m["rot"]].rotation = AimRotation(sc[m["rot"]].position, loc)]
    ELSE sc

AfterScale(sc, m, loc) ==
    IF "scale" \in Keys(m)
    THEN LET o == sc[m["scale"]]
         IN  [sc EXCEPT ![m["scale"]].scale =
                            DragScale(o.position, o.rotation, o.scale, loc)]
    ELSE sc

MouseCalls(m) ==
    <<"getSimContext", "getMousePosition", "getClickedPosition">>
    \o (IF "move" \in Keys(m) THEN <<"setObjectPosition">> ELSE <<>>)
    \o (IF "rot" \in Keys(m) THEN <<"getObjectPosition", "setObjectRotation">> ELSE <<>>)
    \o (IF "scale" \in Keys(m)
        THEN <<"getObjectPosition", "getObjectRotation", "getObjectScale", "setObjectScale">>
        ELSE <<>>)

\* line 128
MouseIdle(m) == Cardinality(Keys(m)) = 0

\* lines 123-162
MouseActionAt(cursor) ==
    /\ phase = "running"
    /\ IF MouseIdle(modify_object_id)
       THEN /\ calls' = <<>>
            /\ UNCHANGED <<scene, n_drags>>
       ELSE /\ n_drags < MaxDrags
            /\ n_drags' = n_drags + 1
            /\ calls' = MouseCalls(modify_object_id)
            /\ scene' = AfterScale(AfterRot(AfterMove(scene, modify_object_id, cursor.location),
                                            modify_object_id, cursor.location),
                                   modify_object_id, cursor.location)
    /\ UNCHANGED <<phase, defined, aiVars, object_ids, modify_object_id, menu,
                   next_id, added, removed, world, constants>>

\* mouse_action asks the engine for the location only
LocationStates ==
    {[location |-> Vector3f(p.x, p.y, z), entity |-> NoEntity] : p \in Points, z \in ZVals}

mouse_action == \E cursor \in LocationStates : MouseActionAt(cursor)

\* lines 23-27
save_ai_call ==
    /\ phase = "running"
    /\ calls' = <<"save_rtneat">>
    /\ UNCHANGED <<phase, defined, aiVars, guiVars, world, constants>>

load_ai_call ==
    /\ phase = "running"
    /\ calls' = <<"load_rtneat">>
    /\ UNCHANGED <<phase, defined, aiVars, guiVars, world, constants>>

\* the AI controls and the module constants
NextAI ==
    \/ LoadConstants
    \/ ClientMain
    \/ ToggleAiCallback
    \/ save_ai_call
    \/ load_ai_call
    \/ PressSpace

SpecAI == Init /\ [][NextAI]_vars

\* the scene editor
Next ==
    \/ ClientMain
    \/ ShowContextMenu
    \/ add_wall
    \/ rotate_object
    \/ scale_object
    \/ move_object
    \/ place_flag
    \/ place_basic_turret
    \/ set_spawn
    \/ remove_wall
    \/ reset_mouse_action
    \/ mouse_action

Spec == Init /\ [][Next]_vars

\* ------------------------------------------------------------ properties

RECURSIVE BitAnd(_, _)
BitAnd(a, b) ==
    IF a = 0 \/ b = 0 THEN 0
    ELSE (a % 2) * (b % 2) + 2 * BitAnd(a \div 2, b \div 2)

RECURSIVE SingleBit(_)
SingleBit(a) == IF a <= 1 THEN a = 1 ELSE a % 2 = 0 /\ SingleBit(a \div 2)

IndexOf(seq, x) == CHOOSE i \in 1..Len(seq) : seq[i] = x
Count(seq, x) == Cardinality({i \in 1..Len(seq) : seq[i] = x})
Created == "create_context_menu" \in Range(calls')

\* C1: a menu that show_context_menu has created holds exactly the four
\* object items when the clicked entity is in object_ids, and otherwise
\* exactly the four ground items and was clicked at |z| <= 1: no menu
\* exists for a click off the objects with |z| > 1.
C1_MenuByClickState ==
    menu.open =>
       IF menu.selected_object_id \in Range(object_ids)
       THEN /\ Len(menu.items) = 4
            /\ Items(menu) = {"Rotate Object", "Scale Object",
                              "Move Object", "Remove Object"}
       ELSE /\ Abs(menu.location.z) <= 1
            /\ Len(menu.items) = 4
            /\ Items(menu) = {"Add wall", "Place Flag",
                              "Place Basic Turret", "Set Spawn Location"}

C1_Witness ==
    /\ menu.open
    /\ menu.selected_object_id \in Range(object_ids)
    /\ Abs(menu.location.z) > 1
    /\ "create_context_menu" \in Range(calls)

\* C2: while modify_object_id is non-empty show_context_menu creates no menu
\* and changes neither modify_object_id nor object_ids, no step opens a menu,
\* only reset_mouse_action empties modify_object_id, and reset_mouse_action
\* empties it and leaves object_ids alone.
C2_NoMenuWhileModifying ==
    [][((Cardinality(Keys(modify_object_id)) > 0) =>
          (/\ ShowContextMenu =>
                 (/\ ~Created
                  /\ UNCHANGED <<menu, modify_object_id, object_ids>>)
           /\ menu' = menu
           /\ ~menu'.open
           /\ ((Cardinality(Keys(modify_object_id')) = 0) => reset_mouse_action)))
       /\ (reset_mouse_action =>
             (/\ modify_object_id' = EmptyDict
              /\ object_ids' = object_ids))]_vars

C2_Witness ==
    /\ "rot" \in Keys(modify_object_id)
    /\ ~menu.open
    /\ n_drags > 0

\* C3: toggle_ai is called once per toggle_ai_callback, start_rtneat exactly
\* once from the first call on, ai_state is None only before the first call,
\* and after n >= 1 calls it is 'Started' iff n is odd, 'Paused' otherwise.
C3_ToggleMachine ==
    /\ n_toggle = n_calls
    /\ ai_state \in {"None", "Started", "Paused"}
    /\ (n_calls = 0) => (ai_state = "None" /\ n_start = 0)
    /\ (n_calls >= 1) =>
          (/\ n_start = 1
           /\ ai_state # "None"
           /\ ((ai_state = "Started") <=> (n_calls % 2 = 1)))

C3_Witness == n_calls >= 4 /\ ai_state = "Paused" /\ n_start = 1

\* C4: in scale mode each horizontal scale factor is < 1 when the local
\* coordinate is negative, > 1 otherwise (0 included), and always positive.
C4_ScaleBySign ==
    [][\A c \in LocationStates :
          (MouseActionAt(c) /\ "scale" \in Keys(modify_object_id)
                            /\ Keys(modify_object_id) = {"scale"}) =>
             LET id == modify_object_id["scale"]
                 o == scene[id]
                 lx == LocalXNum(c.location.x - o.position.x,
                                 c.location.y - o.position.y, o.rotation.z)
                 ly == LocalYNum(c.location.x - o.position.x,
                                 c.location.y - o.position.y, o.rotation.z)
                 sx == scene'[id].scale.x
                 sy == scene'[id].scale.y
             IN  /\ ScalePositive(sx) /\ ScalePositive(sy)
                 /\ IF lx < 0 THEN ScaleBelow1(sx) ELSE ScaleAbove1(sx)
                 /\ IF ly < 0 THEN ScaleBelow1(sy) ELSE ScaleAbove1(sy)]_vars

\* C5: ClientMain disables the AI first; when setup_map fails it only calls
\* switchToHub and creates nothing; when it succeeds it creates the light,
\* the sky box, the GUI state, the camera and the input mapping in that
\* order and binds the space key to the re-centre action.
C5_ClientMainSetup ==
    [][(phase = "boot" /\ phase' # "boot") =>
          /\ Head(calls') = "disable_ai"
          /\ calls'[2] = "setup_map"
          /\ ~ai_enabled'
          /\ IF phase' = "hub"
             THEN /\ calls' = <<"disable_ai", "setup_map", "switchToHub">>
                  /\ world' = NoWorld
                  /\ defined' \cap GuiNames = {}
                  /\ scene' = scene
             ELSE /\ "switchToHub" \notin Range(calls')
                  /\ IndexOf(calls', "addLightSource") < IndexOf(calls', "addSkyBox")
                  /\ IndexOf(calls', "addSkyBox") < IndexOf(calls', "CreateGui")
                  /\ IndexOf(calls', "CreateGui") < IndexOf(calls', "addCamera")
                  /\ IndexOf(calls', "addCamera") < IndexOf(calls', "createInputMapping")
                  /\ IndexOf(calls', "createInputMapping") < IndexOf(calls', "BindKey")
                  /\ IndexOf(calls', "BindKey") < IndexOf(calls', "setInputMapping")
                  /\ Cardinality(world'.lights) = 1
                  /\ world'.skybox # ""
                  /\ world'.camera.exists
                  /\ GuiNames \subseteq defined'
                  /\ object_ids' = <<>>
                  /\ modify_object_id' = EmptyDict
                  /\ DOMAIN world'.io_map = {"KEY_SPACE"}
                  /\ world'.io_map["KEY_SPACE"] = "recenter_cam"]_vars

C5_Witness == phase = "hub" /\ "switchToHub" \in Range(calls) /\ ~ai_enabled

\* C6: MAX_STEPS is twice the number of maze cells, 128 for the 8x8 maze,
\* and OBSTACLE_MASK and AGENT_MASK are distinct single-bit masks with no
\* common bit.
C6_StepLimitAndMasks ==
    DOMAIN constants # {} =>
       /\ constants.ROWS = 8
       /\ constants.COLS = 8
       /\ constants.MAX_STEPS = 2 * (constants.ROWS * constants.COLS)
       /\ constants.MAX_STEPS = 128
       /\ SingleBit(constants.OBSTACLE_MASK)
       /\ SingleBit(constants.AGENT_MASK)
       /\ constants.OBSTACLE_MASK # constants.AGENT_MASK
       /\ BitAnd(constants.OBSTACLE_MASK, constants.AGENT_MASK) = 0

C6_Witness == DOMAIN constants # {} /\ constants.MAX_STEPS = 128

\* C7: mouse_action never changes modify_object_id, object_ids or the set of
\* objects; with no mode set it makes no engine call; otherwise an object's
\* position changes only as the target of 'move' (to the cursor's x, y at
\* height HEIGHT+OFFSET, where add_wall puts a wall), its rotation only as
\* the target of 'rot' (x and y components 0), and its scale only as the
\* target of 'scale' (z component kept).
C7_MouseActionFrame ==
    [][\A c \in LocationStates :
          MouseActionAt(c) =>
             LET m == modify_object_id
                 Target(k, id) == k \in Keys(m) /\ m[k] = id
             IN  /\ UNCHANGED <<modify_object_id, object_ids, menu, next_id>>
                 /\ DOMAIN scene' = DOMAIN scene
                 /\ (Keys(m) = {}) => (calls' = <<>> /\ scene' = scene)
                 /\ (Keys(m) # {}) =>
                      \A id \in DOMAIN scene :
                         /\ IF Target("move", id)
                            THEN /\ scene'[id].position =
                                       Vector3f(c.location.x, c.location.y, HEIGHT + OFFSET)
                                 /\ scene'[id].position.z =
                                       WallObject(c.location).position.z
                            ELSE scene'[id].position = scene[id].position
                         /\ IF Target("rot", id)
                            THEN /\ scene'[id].rotation.x = Deg0
                                 /\ scene'[id].rotation.y = Deg0
                            ELSE scene'[id].rotation = scene[id].rotation
                         /\ IF Target("scale", id)
                            THEN scene'[id].scale.z = scene[id].scale.z
                            ELSE scene'[id].scale = scene[id].scale]_vars

C7_Witness ==
    /\ "scale" \in Keys(modify_object_id)
    /\ "setObjectScale" \in Range(calls)
    /\ LET o == scene[modify_object_id["scale"]]
       IN  o.scale.z = Plain(HEIGHT) /\ o.scale.y # Plain(30)

\* C8: once ClientMain has run, the engine's AI is enabled iff ai_state is
\* 'Started', and rtNEAT has been started iff ai_state is not None.
C8_AiEnabledIffStarted ==
    phase = "running" =>
       (/\ (ai_enabled <=> (ai_state = "Started"))
        /\ ((n_start >= 1) <=> (ai_state # "None")))

C8_Witness == phase = "running" /\ ai_state = "Started" /\ ai_enabled /\ n_calls >= 3

\* C9: object_ids holds exactly the ids added by 'Add wall' and not removed
\* by 'Remove Object', and each of them names an object of the scene.
C9_ObjectIdsAreLive ==
    /\ Range(object_ids) = added \ removed
    /\ Range(object_ids) \subseteq DOMAIN scene
====
